---- MODULE Spec2Model ----
(***************************************************************************)
(* The quiz client: the orchestrator (quiz-application), the countdown     *)
(* timer, the question display, the nickname form and the high-score       *)
(* board, wired by DOM events, with the quiz server and localStorage as    *)
(* the environment.                                                        *)
(***************************************************************************)
EXTENDS Integers, Sequences, FiniteSets, TLC

\* body at the value of arg, which is computed once
With(arg, body(_)) == CHOOSE r \in {body(x) : x \in {arg}} : TRUE

(***************************************************************************)
(* JavaScript values.  Every value has the same three fields so that any   *)
(* two of them can be compared: t is the type tag, n the number, s the     *)
(* characters of a string.                                                 *)
(***************************************************************************)
Undefined == [t |-> "undefined", n |-> 0, s |-> <<>>]
Null == [t |-> "null", n |-> 0, s |-> <<>>]
NaN == [t |-> "NaN", n |-> 0, s |-> <<>>]
Num(k) == [t |-> "number", n |-> k, s |-> <<>>]
Str(cs) == [t |-> "string", n |-> 0, s |-> cs]

\* typeof v === 'number' (NaN is a number too)
TypeofNumber(v) == v.t \in {"number", "NaN"}

\* the truthiness of a value in a condition
Truthy(v) ==
  CASE v.t = "number" -> v.n # 0
    [] v.t = "string" -> Len(v.s) > 0
    [] OTHER -> FALSE

Digits == {"0", "1", "2", "3", "4", "5", "6", "7", "8", "9"}

DigitValue(c) ==
  CASE c = "0" -> 0 [] c = "1" -> 1 [] c = "2" -> 2 [] c = "3" -> 3
    [] c = "4" -> 4 [] c = "5" -> 5 [] c = "6" -> 6 [] c = "7" -> 7
    [] c = "8" -> 8 [] c = "9" -> 9

RECURSIVE SkipSpaces(_)
SkipSpaces(cs) ==
  IF cs # <<>> /\ Head(cs) = " " THEN SkipSpaces(Tail(cs)) ELSE cs

RECURSIVE TrimRight(_)
TrimRight(cs) ==
  IF cs # <<>> /\ cs[Len(cs)] = " " THEN TrimRight(SubSeq(cs, 1, Len(cs) - 1)) ELSE cs

\* String.prototype.trim
Trim(cs) == TrimRight(SkipSpaces(cs))

\* the longest prefix of digits of cs, read as a decimal number from acc
RECURSIVE DigitPrefix(_, _, _)
DigitPrefix(cs, acc, seen) ==
  IF cs # <<>> /\ Head(cs) \in Digits
  THEN DigitPrefix(Tail(cs), 10 * acc + DigitValue(Head(cs)), TRUE)
  ELSE IF seen THEN Num(acc) ELSE NaN

\* parseInt of a string: leading blanks, an optional sign, then digits
ParseIntChars(cs) ==
  LET body == SkipSpaces(cs)
      neg == body # <<>> /\ Head(body) = "-"
      signed == body # <<>> /\ Head(body) \in {"-", "+"}
      r == DigitPrefix(IF signed THEN Tail(body) ELSE body, 0, FALSE)
  IN IF r.t = "number" /\ neg THEN Num(0 - r.n) ELSE r

\* parseInt(v): v is turned into a string first; an integer prints as
\* itself, undefined and null print as words without digits
parseInt(v) ==
  CASE v.t = "number" -> Num(v.n)
    [] v.t = "string" -> ParseIntChars(v.s)
    [] OTHER -> NaN

(***************************************************************************)
(* Bounds of the model and constants of the program.                       *)
(***************************************************************************)
DefaultDuration == 20
MinAlternatives == 2
MaxAlternatives == 10
TopScores == 5

\* seconds the clock may tick in one run of the model
MaxElapsed == 3
\* requests the player may start in one run of the model
MaxRequests == 3
\* the longest duration tried on the timer alone, besides the default
MaxDuration == 3
\* seconds the timer alone may tick between two resets
MaxTimerElapsed == 22
\* entries in the history shown to the board alone
MaxHistory == 7
\* the highest score recorded on the board alone
MaxScore == 5
\* the most keys an alternatives object of the display quiz has
MaxKeys == 11
\* requests the player may start in one run of the display quiz
MaxDisplayRequests == 2
\* requests the player may start in one run of the quiz of limits
MaxLimitRequests == 2
\* requests the player may start in one run over a storage left by others
MaxStoredRequests == 2
\* entries of the longest history earlier visits left
MaxEarlier == 6
\* requests the player may start in one run of the quiz whose clock runs on
MaxLiveRequests == 2

(***************************************************************************)
(* CountdownTimer.  The record holds the element's fields and `intervals`, *)
(* the ids of the window's interval callbacks that are still scheduled.    *)
(***************************************************************************)
NullId == 0

TimerInit ==
  [timeLeft |-> 0, intervalId |-> NullId, totalTimeSpent |-> 0,
   accumulatedTime |-> 0, intervals |-> {}]

\* setInterval hands out an id that is not in use
FreshId(tm) == CHOOSE i \in 1..(Cardinality(tm.intervals) + 1) : i \notin tm.intervals

\* stopTimer that forgets the seconds of the question
stopTimerLosing(tm) ==
  IF tm.intervalId # NullId
  THEN [tm EXCEPT !.intervals = @ \ {tm.intervalId},
                  !.intervalId = NullId,
                  !.totalTimeSpent = 0]
  ELSE tm

\* stopTimer without its test, which leaves the seconds of the question
\* in place
stopTimerRepeating(tm) ==
  [tm EXCEPT !.intervals = @ \ {tm.intervalId},
             !.intervalId = NullId,
             !.accumulatedTime = @ + tm.totalTimeSpent]

stopTimer(tm0) ==
  With(tm0, LAMBDA tm :
  IF tm.intervalId # NullId
  THEN [tm EXCEPT !.intervals = @ \ {tm.intervalId},
                  !.intervalId = NullId,
                  !.accumulatedTime = @ + tm.totalTimeSpent,
                  !.totalTimeSpent = 0]
  ELSE tm)

\* a replacement of 0 for what is not a number
EffectiveDurationZero(duration) ==
  IF ~TypeofNumber(duration) \/ duration.t = "NaN" THEN 0 ELSE duration.n

\* the duration startTimer counts down from
EffectiveDuration(duration) ==
  IF ~TypeofNumber(duration) \/ duration.t = "NaN" THEN DefaultDuration ELSE duration.n

\* startTimer without the stop of the timer that is running
startTimerStacking(tm, duration) ==
  LET id == FreshId(tm)
  IN [tm EXCEPT !.timeLeft = EffectiveDuration(duration),
                !.intervalId = id,
                !.intervals = @ \cup {id}]

startTimer(tm0, duration) ==
  With(tm0, LAMBDA tm :
  LET stopped == stopTimer(tm)
      id == FreshId(stopped)
  IN [stopped EXCEPT !.timeLeft = EffectiveDuration(duration),
                     !.intervalId = id,
                     !.intervals = @ \cup {id}])

\* the interval callback while time is left
tickDown(tm) ==
  [tm EXCEPT !.timeLeft = @ - 1, !.totalTimeSpent = @ + 1]

resetAll(tm) ==
  [stopTimer(tm) EXCEPT !.totalTimeSpent = 0, !.accumulatedTime = 0]

(***************************************************************************)
(* localStorage and JSON.  A stored history is the text JSON.stringify     *)
(* wrote: an entry's score is a number, null, or no key at all.  A key is  *)
(* absent from the storage until something is stored under it.  Another    *)
(* script of the site, or the player, may have left there a text that is   *)
(* not JSON, the JSON of an object that is not an array, or the JSON of a  *)
(* falsy value (null, 0, false, "").                                       *)
(***************************************************************************)
Absent == [t |-> "absent", n |-> 0, s |-> <<>>]

\* JSON.stringify of one property value: undefined drops the key, NaN is
\* written as null
StringifyValue(v) ==
  CASE v.t = "undefined" -> Absent
    [] v.t = "NaN" -> Null
    [] OTHER -> v

\* reading a property of a parsed object: a missing key reads undefined
ParseValue(j) == IF j.t = "absent" THEN Undefined ELSE j

JSONStringify(entries0) ==
  With(entries0, LAMBDA entries :
  [i \in 1..Len(entries) |->
     [nickname |-> entries[i].nickname, score |-> StringifyValue(entries[i].score)]])

JSONParse(items0) ==
  With(items0, LAMBDA items :
  [i \in 1..Len(items) |->
     [nickname |-> items[i].nickname, score |-> ParseValue(items[i].score)]])

NoItem == [kind |-> "absent", items |-> <<>>]
ArrayItem(entries) == [kind |-> "array", items |-> JSONStringify(entries)]

InvalidItem == [kind |-> "invalid", items |-> <<>>]
ObjectItem == [kind |-> "object", items |-> <<>>]
FalsyItem == [kind |-> "falsy", items |-> <<>>]

\* JSON.parse throws a SyntaxError on this text
ParseThrows(stored) == stored.kind = "invalid"

\* the value loaded has the methods of an array (findIndex, filter)
LoadsArray(stored) == stored.kind \in {"absent", "falsy", "array"}

\* JSON.parse(localStorage.getItem('highScores')) || []
LoadHighScores(stored) ==
  IF stored.kind \in {"absent", "falsy"} THEN <<>> ELSE JSONParse(stored.items)

\* a.score - b.score > 0, false when the difference is NaN
ScoreAfter(a, b) ==
  a.score.t = "number" /\ b.score.t = "number" /\ a.score.n - b.score.n > 0

\* e put into the sorted list after the last entry it does not precede
RECURSIVE InsertByScore(_, _)
InsertByScore(sorted0, e) ==
  With(sorted0, LAMBDA sorted :
  IF sorted = <<>> THEN <<e>>
  ELSE IF ScoreAfter(sorted[Len(sorted)], e)
       THEN Append(InsertByScore(SubSeq(sorted, 1, Len(sorted) - 1), e), sorted[Len(sorted)])
       ELSE Append(sorted, e))

\* Array.prototype.sort((a, b) => a.score - b.score): a stable sort
RECURSIVE SortByScore(_)
SortByScore(entries0) ==
  With(entries0, LAMBDA entries :
  IF entries = <<>> THEN <<>>
  ELSE InsertByScore(SortByScore(SubSeq(entries, 1, Len(entries) - 1)), entries[Len(entries)]))

\* typeof entry.score === 'number' && !isNaN(entry.score)
NumericScore(entry) == TypeofNumber(entry.score) /\ entry.score.t # "NaN"

\* Array.prototype.filter with the test above
RECURSIVE FilterNumeric(_)
FilterNumeric(entries0) ==
  With(entries0, LAMBDA entries :
  IF entries = <<>> THEN <<>>
  ELSE IF NumericScore(Head(entries))
       THEN <<Head(entries)>> \o FilterNumeric(Tail(entries))
       ELSE FilterNumeric(Tail(entries)))

Slice(entries0, count) ==
  With(entries0, LAMBDA entries :
  SubSeq(entries, 1, IF Len(entries) < count THEN Len(entries) ELSE count))

\* the list without the filter on the scores
topFiveUnfiltered(scores) == Slice(SortByScore(scores), TopScores)

\* the list render shows
topFiveScores(scores) ==
  Slice(SortByScore(FilterNumeric(scores)), TopScores)

\* a search that never finds the pair
existingEntryIndexNone(highScores, newHighScore) == -1

\* highScores.findIndex(...): the position of the first entry with this
\* nickname and score, -1 when there is none
existingEntryIndex(highScores0, newHighScore) ==
  With(highScores0, LAMBDA highScores :
  LET hits == {i \in 1..Len(highScores) :
                 /\ highScores[i].nickname = newHighScore.nickname
                 /\ highScores[i].score = newHighScore.score}
  IN IF hits = {} THEN -1 ELSE CHOOSE i \in hits : \A j \in hits : i <= j)

(***************************************************************************)
(* What the quiz server sends.  A response body is a question object, the  *)
(* JSON null, or another JSON value without properties (0, false, "").     *)
(* alternatives is absent, an object with `keys` keys (named 1..keys), or  *)
(* a string.  nextURL "" stands for an absent or null nextURL.             *)
(***************************************************************************)
NoURL == ""
EntryURL == "https://courselab.lnu.se/quiz/question/1"

NoAlternatives == [t |-> "absent", keys |-> 0]
Alternatives(k) == [t |-> "object", keys |-> k]
TextAlternatives == [t |-> "string", keys |-> 0]

Question(alt, next, limit) ==
  [kind |-> "object", alternatives |-> alt, nextURL |-> next, limit |-> limit]
NoData(kind) ==
  [kind |-> kind, alternatives |-> NoAlternatives, nextURL |-> NoURL, limit |-> Undefined]
NullData == NoData("null")
FalsyData == NoData("falsy")
NoQuestion == NoData("undefined")

\* a value on which a property can be read without a TypeError
Readable(data) == data.kind \in {"object", "falsy"}
\* a value that passes `if (data)`
TruthyData(data) == data.kind = "object"

(***************************************************************************)
(* QuizQuestion: the question shown, the controls rendered for it, the     *)
(* radio button checked (0: none) and the text in the answer input.        *)
(***************************************************************************)
AnswerNull == [t |-> "null", k |-> 0, s |-> <<>>]
AnswerKey(k) == [t |-> "key", k |-> k, s |-> <<>>]
AnswerText(cs) == [t |-> "text", k |-> 0, s |-> cs]

DisplayInit ==
  [currentQuestion |-> NoQuestion, mode |-> "none", radios |-> 0,
   checked |-> 0, input |-> <<>>]

\* the test with a lower limit of one alternative
UseChoicesFromOne(alternatives) ==
  /\ alternatives.t = "object"
  /\ alternatives.keys >= 1
  /\ alternatives.keys <= MaxAlternatives

\* the test that chooses radio buttons over the text input
UseChoices(alternatives) ==
  /\ alternatives.t = "object"
  /\ alternatives.keys >= MinAlternatives
  /\ alternatives.keys <= MaxAlternatives

setQuestion(qq, question) ==
  IF ~TruthyData(question) THEN qq
  ELSE IF UseChoices(question.alternatives)
       THEN [currentQuestion |-> question, mode |-> "choice",
             radios |-> question.alternatives.keys, checked |-> 0, input |-> <<>>]
       ELSE [currentQuestion |-> question, mode |-> "text", radios |-> 0,
             checked |-> 0, input |-> <<>>]

\* `if (this.currentQuestion.alternatives)`: an object or a filled string
HasAlternatives(question) == question.alternatives.t # "absent"

\* the answer handleAnswerClick puts in the 'answer-selected' event
selectedAnswer(qq) ==
  IF HasAlternatives(qq.currentQuestion)
  THEN IF qq.checked # 0 THEN AnswerKey(qq.checked) ELSE AnswerNull
  ELSE AnswerText(Trim(qq.input))

(***************************************************************************)
(* The state of the page.                                                  *)
(***************************************************************************)
VARIABLES
  countdownTimer,   \* the countdown-timer element
  quizApplication,  \* the fields of the quiz-application element
  hidden,           \* which child elements carry the class 'hidden'
  localStorage,     \* the keys 'highScores' and 'nickname'
  highScore,        \* the high-score element: scores and the list shown
  quizQuestion,     \* the quiz-question element
  nicknameForm,     \* the text in the nickname input
  network,          \* the requests awaiting their response, oldest first
  requests,         \* requests the player has started so far
  obs               \* what an observer has seen since the restart (history)

vars == <<countdownTimer, quizApplication, hidden, localStorage, highScore,
          quizQuestion, nicknameForm, network, requests, obs>>

World ==
  [tm |-> countdownTimer, app |-> quizApplication, hidden |-> hidden,
   ls |-> localStorage, board |-> highScore, qq |-> quizQuestion,
   form |-> nicknameForm, net |-> network, obs |-> obs]

Commit(w) ==
  \E x \in {w} :
    /\ countdownTimer' = x.tm
    /\ quizApplication' = x.app
    /\ hidden' = x.hidden
    /\ localStorage' = x.ls
    /\ highScore' = x.board
    /\ quizQuestion' = x.qq
    /\ nicknameForm' = x.form
    /\ network' = x.net
    /\ obs' = x.obs

NoCompletion == [path |-> "none", score |-> Undefined, total |-> 0, answered |-> 0]

ObsInit ==
  [last |-> "init",            \* the handler that ran last
   completions |-> 0,          \* runs of the completion handling since the restart
   persists |-> 0,             \* entries showHighScore stored since the restart
   dropped |-> FALSE,          \* a completion was requested after one had run
   sawExisting |-> FALSE,      \* a pair was recorded that was already stored
   startArg |-> Undefined,     \* the duration of the last 'set-question'
   countFrom |-> 0,            \* the time left as that start set it
   question |-> NoQuestion,    \* the question it carried
   startElapsed |-> 0,         \* seconds ticked before that start
   started |-> FALSE,          \* the timer has been started
   interrupted |-> FALSE,      \* stop or reset came while that run was ticking
   emits |-> 0,                \* 'total-time-spent' events since the last start
   lastTotal |-> 0,            \* the totalTime of the last such event
   answer |-> AnswerNull,      \* the answer in the last such event
   answerMode |-> "none",      \* the controls it was given with
   typed |-> <<>>,             \* the text in the input at that time
   picked |-> 0,               \* the radio button checked at that time
   nicknames |-> 0,            \* 'nickname' events since the restart
   nicknameDetail |-> <<>>,    \* the nickname the last of them carried
   postURL |-> NoURL,          \* the URL of the last POST
   verdict |-> NoURL,          \* the nextURL of the last response to a POST
   completion |-> NoCompletion, \* the last run of the completion handling
   threw |-> FALSE,            \* a handler ended in an error nothing caught
   answers |-> 0,              \* 'answer-selected' events since the restart
   tryAgains |-> 0             \* 'try-again' events since the page was loaded
  ]

(***************************************************************************)
(* The handlers, as functions from the state of the page to the state      *)
(* they leave.                                                             *)
(***************************************************************************)
\* the timer's listener for 'stop-timer'
stopTimerListener(w0) ==
  With(w0, LAMBDA w :
  [w EXCEPT !.tm = stopTimer(@),
            !.obs.interrupted = @ \/ w.tm.intervalId # NullId])

\* highScore.render: the scores are read again from the storage
render(ls) ==
  With(LoadHighScores(ls.highScores), LAMBDA loaded :
  [scores |-> loaded,
   topFive |-> topFiveScores(loaded),
   connected |-> TRUE])

\* render ends in a SyntaxError or a TypeError
RenderThrows(ls) == ParseThrows(ls.highScores) \/ ~LoadsArray(ls.highScores)

\* the element as its constructor leaves it
BoardInit == [scores |-> <<>>, topFive |-> <<>>, connected |-> FALSE]

\* highScore.connectedCallback: when the first render throws, the listener
\* for 'high-score' is never added
boardConnectedCallback(w) ==
  IF RenderThrows(w.ls) THEN [w EXCEPT !.obs.threw = TRUE]
  ELSE [w EXCEPT !.board = render(w.ls)]

\* a list cut to the scores the board shows
boardStoredTopFive(scores, detail) == topFiveScores(Append(scores, detail))

\* this.scores after the push, which the listener stores
boardStored(scores, detail) == Append(scores, detail)

\* the board's listener for 'high-score'
highScoreListener(w0, detail) ==
  With(w0, LAMBDA w :
  IF ~w.board.connected THEN w
  ELSE IF \E i \in 1..Len(w.board.scores) :
       /\ w.board.scores[i].nickname = detail.nickname
       /\ w.board.scores[i].score = detail.score
  THEN w
  ELSE With([w.ls EXCEPT !.highScores = ArrayItem(boardStored(w.board.scores, detail))],
            LAMBDA stored : [w EXCEPT !.ls = stored, !.board = render(stored)]))

\* showHighScore without its guard
AlreadyShownNever(app) == FALSE

\* `if (this.highScoreShown) return`
AlreadyShown(app) == app.highScoreShown

showHighScore(w0, accumulatedTime, path) ==
  With(w0, LAMBDA w :
  IF AlreadyShown(w.app) THEN [w EXCEPT !.obs.dropped = TRUE]
  ELSE
    With(stopTimerListener(w), LAMBDA w1 :
    With([nickname |-> w.app.nickname, score |-> accumulatedTime], LAMBDA newHighScore :
    With(LoadHighScores(w.ls.highScores), LAMBDA highScores :
    With(Trim(newHighScore.nickname) # <<>>, LAMBDA named :
    With(existingEntryIndex(highScores, newHighScore) = -1, LAMBDA isNew :
    With([w1 EXCEPT
            !.app.highScoreShown = TRUE,
            !.hidden.quizQuestion = TRUE,
            !.hidden.countdownTimer = TRUE,
            !.hidden.nicknameForm = TRUE,
            !.obs.completions = @ + 1,
            !.obs.sawExisting = @ \/ (named /\ ~isNew),
            !.obs.completion =
               [path |-> path, score |-> accumulatedTime,
                total |-> w1.tm.accumulatedTime, answered |-> 0]], LAMBDA w2 :
    IF \/ ParseThrows(w.ls.highScores)
       \/ named /\ ~LoadsArray(w.ls.highScores)
    THEN [w2 EXCEPT !.obs.threw = TRUE]
    ELSE IF named /\ isNew
    THEN [highScoreListener(
            [w2 EXCEPT
               !.ls.highScores = ArrayItem(SortByScore(Append(highScores, newHighScore))),
               !.obs.persists = @ + 1],
            newHighScore) EXCEPT !.hidden.highScore = FALSE]
    ELSE [w2 EXCEPT !.hidden.highScore = FALSE])))))))

\* the timer's listener for 'set-question'
startTimerListener(w0, duration) ==
  With(w0, LAMBDA w :
  [w EXCEPT !.tm = startTimer(@, duration),
            !.obs.startArg = duration,
            !.obs.countFrom = startTimer(w.tm, duration).timeLeft,
            !.obs.startElapsed = w.tm.accumulatedTime + w.tm.totalTimeSpent,
            !.obs.started = TRUE,
            !.obs.interrupted = FALSE,
            !.obs.emits = 0])

\* the listeners for 'set-question': the timer starts, the display renders
setQuestionEvent(w, question, duration) ==
  [startTimerListener(w, duration) EXCEPT
     !.qq = setQuestion(@, question),
     !.obs.question = question,
     !.obs.last = "set-question"]

Request(method, url, cont, answer, answered) ==
  [method |-> method, url |-> url, cont |-> cont, answer |-> answer,
   answered |-> answered]

\* fetch(url): a GET leaves for the server
fetchGet(w0, url, cont) ==
  With(w0, LAMBDA w :
  [w EXCEPT !.net = Append(@, Request("GET", url, cont, AnswerNull, 0))])

\* data.limit ? parseInt(data.limit) : 20
firstDuration(data) ==
  IF Truthy(data.limit) THEN parseInt(data.limit) ELSE Num(DefaultDuration)

\* parseInt(this.currentQuestion.limit) || 20
nextDuration(data) ==
  IF Truthy(parseInt(data.limit)) THEN parseInt(data.limit) ELSE Num(DefaultDuration)

\* fetchQuestions after its fetch: data is the body, failed a rejected
\* fetch or a body that is not JSON
fetchQuestions(w, failed, data) ==
  IF failed THEN w
  ELSE LET w1 == [w EXCEPT !.app.currentQuestion = data]
       IN IF ~Readable(data) THEN w1
          ELSE setQuestionEvent(w1, data, firstDuration(data))

\* fetchNextQuestion after its fetch
fetchNextQuestion(w, failed, data) ==
  IF failed THEN showHighScore(w, w.app.totalTime, "fetchFailed")
  ELSE LET w1 == [w EXCEPT !.app.currentQuestion = data]
       IN IF ~Readable(data) THEN showHighScore(w1, w1.app.totalTime, "fetchFailed")
          ELSE IF TruthyData(data) THEN setQuestionEvent(w1, data, nextDuration(data))
          ELSE w1

\* the URL submitAnswer posts to
postTarget(app) == app.currentQuestion.nextURL

\* the test without the look at nextURL
hasNextAny(data) == TruthyData(data)

\* `if (data && data.nextURL)`
hasNext(data) == TruthyData(data) /\ data.nextURL # NoURL

\* submitAnswer up to its fetch: reading nextURL of null throws
submitAnswer(w0, answer) ==
  With(w0, LAMBDA w :
  IF ~Readable(w.app.currentQuestion) THEN w
  ELSE [w EXCEPT
          !.net = Append(@, Request("POST", postTarget(w.app), "submitAnswer", answer,
                    w.tm.accumulatedTime
                      + (w.obs.countFrom - w.tm.timeLeft))),
          !.obs.postURL = postTarget(w.app)])

\* submitAnswer after its fetch
submitAnswerResponse(w0, req, failed, data) ==
  IF failed THEN w0
  ELSE With([w0 EXCEPT !.obs.verdict = data.nextURL], LAMBDA w :
  IF hasNext(data) THEN fetchGet(w, data.nextURL, "fetchNextQuestion")
  ELSE With(stopTimerListener(w), LAMBDA w1 :
       With(showHighScore(w1, Num(w1.tm.accumulatedTime), "noNext"), LAMBDA w2 :
       IF w2.obs.completions = w.obs.completions THEN w2
       ELSE [w2 EXCEPT !.obs.completion.answered = req.answered])))

\* the listener for 'nickname'
nicknameListener(w, nickname) ==
  fetchGet([w EXCEPT !.hidden.nicknameForm = TRUE,
                     !.hidden.quizQuestion = FALSE,
                     !.hidden.countdownTimer = FALSE,
                     !.app.nickname = nickname,
                     !.ls.nickname = [present |-> TRUE, value |-> nickname]],
           EntryURL, "fetchQuestions")

\* the nickname as typed
nicknameValueRaw(input) == input

\* the value of the nickname input, trimmed
nicknameValue(input) == Trim(input)

\* the nickname form's listener for 'submit': 'nickname' is dispatched,
\* which the orchestrator hears, unless the trimmed value is empty
nicknameFormSubmit(w) ==
  LET nickname == nicknameValue(w.form)
  IN IF nickname # <<>>
     THEN nicknameListener([w EXCEPT !.obs.nicknames = @ + 1,
                                     !.obs.nicknameDetail = nickname],
                           nickname)
     ELSE w

\* handleAnswerClick: the answer is read and 'answer-selected' dispatched,
\* which the orchestrator hears
handleAnswerClick(w) ==
  submitAnswer([w EXCEPT !.obs.answers = @ + 1,
                         !.obs.answer = selectedAnswer(w.qq),
                         !.obs.answerMode = w.qq.mode,
                         !.obs.typed = w.qq.input,
                         !.obs.picked = w.qq.checked],
               selectedAnswer(w.qq))

\* a test that finds a checked radio button in every form
radioCheckedAlways(qq) == TRUE

\* formElement.querySelector('input[name="answer"]:checked')
radioChecked(qq) == qq.checked # 0

\* the click listener of the Submit Answer button of a form of choices
choiceSubmit(w) ==
  IF radioChecked(w.qq) THEN handleAnswerClick(w) ELSE w

\* 'total-time-spent' is dispatched with the accumulated time
dispatchTotalTimeSpentEvent(w0) ==
  With(w0, LAMBDA w :
  [w EXCEPT !.obs.emits = @ + 1, !.obs.lastTotal = w.tm.accumulatedTime])

\* the interval callback when no time is left: the timer stops itself and
\* dispatches the event
timeIsUp(w) == dispatchTotalTimeSpentEvent([w EXCEPT !.tm = stopTimer(@)])

\* the timer's listener for 'try-again'
tryAgainListener(w0) ==
  With(w0, LAMBDA w :
  [w EXCEPT !.tm = resetAll(@),
            !.obs.interrupted = @ \/ w.tm.intervalId # NullId])

\* a listener that keeps the total and shows nothing
totalTimeSpentListenerSilent(w) ==
  [w EXCEPT !.app.totalTime = Num(w.tm.accumulatedTime)]

\* the orchestrator's listener for 'total-time-spent'
totalTimeSpentListener(w0) ==
  With(w0, LAMBDA w :
  showHighScore([w EXCEPT !.app.totalTime = Num(w.tm.accumulatedTime)],
                Num(w.tm.accumulatedTime), "expiry"))

\* a removal of every key of the storage
removeItemsAll(ls) ==
  [highScores |-> NoItem, nickname |-> [present |-> FALSE, value |-> <<>>]]

\* removeItem('quizScore') and removeItem('nickname'): nothing is ever
\* stored under 'quizScore'
removeItems(ls) ==
  [ls EXCEPT !.nickname = [present |-> FALSE, value |-> <<>>]]

restartQuiz(w) ==
  LET w1 == stopTimerListener(w)
  IN [w1 EXCEPT !.tm = resetAll(@),
                !.hidden.highScore = TRUE,
                !.ls = removeItems(@),
                !.form = <<>>,
                !.hidden.quizQuestion = TRUE,
                !.hidden.countdownTimer = TRUE,
                !.hidden.nicknameForm = FALSE,
                !.app.highScoreShown = FALSE,
                !.obs = [ObsInit EXCEPT !.tryAgains = w.obs.tryAgains]]

\* a tryAgain that dispatches the event twice
tryAgainTwice(w) == [w EXCEPT !.obs.tryAgains = @ + 2]

\* highScore.tryAgain: 'try-again' is dispatched; the listener it removes
\* first was never added
tryAgain(w) == [w EXCEPT !.obs.tryAgains = @ + 1]

(***************************************************************************)
(* The inputs: what the player types and what the server answers.          *)
(***************************************************************************)
NicknameTexts == {<<" ">>, <<"A">>, <<" ", "B">>}
AnswerTexts == {<<>>, <<" ", "x">>}

LimitValues ==
  {Undefined, Null, Num(0), Num(1), Num(2), Num(-1),
   Str(<<"0">>), Str(<<"2">>), Str(<<"a">>)}

\* the questions of the quiz: one that varies the limit, one that varies
\* the alternatives, one that varies the nextURL
Questions ==
  {Question(NoAlternatives, "/q/2", Num(1)), Question(Alternatives(2), "/q/2", Num(2))}

\* the bodies of the responses to an answer
Verdicts == {Question(NoAlternatives, u, Undefined) : u \in {"/q/3", NoURL}}
              \cup {NullData}

Init ==
  /\ countdownTimer = TimerInit
  /\ quizApplication = [nickname |-> <<>>, currentQuestion |-> NoQuestion,
                        highScoreShown |-> FALSE, totalTime |-> Undefined]
  /\ hidden = [nicknameForm |-> FALSE, quizQuestion |-> FALSE,
               countdownTimer |-> TRUE, highScore |-> TRUE]
  /\ localStorage = [highScores |-> NoItem,
                     nickname |-> [present |-> FALSE, value |-> <<>>]]
  /\ highScore = render([highScores |-> NoItem])
  /\ quizQuestion = DisplayInit
  /\ nicknameForm = <<>>
  /\ network = <<>>
  /\ requests = 0
  /\ obs = ObsInit

Without(seq, i) == SubSeq(seq, 1, i - 1) \o SubSeq(seq, i + 1, Len(seq))

Did(w0, name) ==
  With(w0, LAMBDA w :
  [w EXCEPT !.obs.last = name])

\* the nickname form is submitted with this text in its input
SubmitNickname(text, budget) ==
  /\ ~hidden.nicknameForm
  /\ requests < budget
  /\ LET w == nicknameFormSubmit([World EXCEPT !.form = text])
     IN /\ Commit(Did(w, "nickname-submit"))
        /\ requests' = requests + (Len(w.net) - Len(network))

\* the player checks radio button k (0: leaves them as they are) and
\* presses Submit Answer
SubmitChoice(k, budget) ==
  /\ ~hidden.quizQuestion
  /\ quizQuestion.mode = "choice"
  /\ k \in 0..quizQuestion.radios
  /\ requests < budget
  /\ LET w == choiceSubmit(IF k = 0 THEN World ELSE [World EXCEPT !.qq.checked = k])
     IN /\ Commit(Did(w, IF w.obs.answers # obs.answers THEN "answer" ELSE "answer:none"))
        /\ requests' = requests + (w.obs.answers - obs.answers)

\* the player types text and presses Submit Answer or Enter
SubmitText(text, budget) ==
  /\ ~hidden.quizQuestion
  /\ quizQuestion.mode = "text"
  /\ requests < budget
  /\ Commit(Did(handleAnswerClick([World EXCEPT !.qq.input = text]), "answer"))
  /\ requests' = requests + 1

\* the interval callback runs while time is left
Tick(seconds) ==
  /\ countdownTimer.intervals # {}
  /\ countdownTimer.timeLeft > 0
  /\ countdownTimer.accumulatedTime + countdownTimer.totalTimeSpent < seconds
  /\ Commit(Did([World EXCEPT !.tm = tickDown(@)], "tick"))
  /\ UNCHANGED requests

\* the interval callback runs when no time is left
Expire ==
  /\ countdownTimer.intervals # {}
  /\ ~(countdownTimer.timeLeft > 0)
  /\ Commit(Did(totalTimeSpentListener(timeIsUp(World)), "expire"))
  /\ UNCHANGED requests

\* the response to the GET at position i arrives, or the request fails
GetResponse(i, failed, data) ==
  /\ i \in 1..Len(network)
  /\ network[i].method = "GET"
  /\ LET w == [World EXCEPT !.net = Without(@, i)]
     IN IF network[i].cont = "fetchQuestions"
        THEN Commit(fetchQuestions(
                      Did(w, IF failed THEN "get:failed" ELSE "fetchQuestions"),
                      failed, data))
        ELSE Commit(fetchNextQuestion(
                      Did(w, IF failed THEN "get:failed" ELSE "fetchNextQuestion"),
                      failed, data))
  /\ UNCHANGED requests

\* the response to the POST at position i arrives, or the request fails
PostResponse(i, failed, data) ==
  /\ i \in 1..Len(network)
  /\ network[i].method = "POST"
  /\ Commit(Did(submitAnswerResponse([World EXCEPT !.net = Without(@, i)],
                                     network[i], failed, data),
                IF failed THEN "post:failed"
                ELSE IF hasNext(data) THEN "post:next" ELSE "post:done"))
  /\ UNCHANGED requests

\* the player presses Try Again: the orchestrator restarts the quiz, then
\* the timer's own listener on the window resets it
TryAgain ==
  /\ ~hidden.highScore
  /\ Commit(Did(tryAgainListener(restartQuiz(tryAgain(World))), "restart"))
  /\ UNCHANGED requests

Step(questions, budget, seconds) ==
  \/ \E text \in NicknameTexts : SubmitNickname(text, budget)
  \/ \E k \in 0..MaxAlternatives : SubmitChoice(k, budget)
  \/ \E text \in AnswerTexts : SubmitText(text, budget)
  \/ Tick(seconds)
  \/ Expire
  \/ \E i \in 1..Len(network) : GetResponse(i, TRUE, NullData)
  \/ \E i \in 1..Len(network), q \in questions \cup {NullData, FalsyData} :
       GetResponse(i, FALSE, q)
  \/ \E i \in 1..Len(network) : PostResponse(i, TRUE, NullData)
  \/ \E i \in 1..Len(network), v \in Verdicts : PostResponse(i, FALSE, v)
  \/ TryAgain

Next == Step(Questions, MaxRequests, MaxElapsed)

Spec == Init /\ [][Next]_vars

(***************************************************************************)
(* The same page with a quiz whose questions differ in their alternatives. *)
(***************************************************************************)
DisplayQuestions ==
  {Question(a, "/q/2", Num(1)) :
     a \in {NoAlternatives, TextAlternatives} \cup {Alternatives(k) : k \in 0..MaxKeys}}

DisplayNext == Step(DisplayQuestions, MaxDisplayRequests, MaxElapsed)

SpecDisplay == Init /\ [][DisplayNext]_vars

(***************************************************************************)
(* The same page with a quiz whose questions differ in their limit.        *)
(***************************************************************************)
LimitQuestions ==
  {Question(NoAlternatives, "/q/2", l) : l \in LimitValues}
    \cup {Question(Alternatives(2), "/q/2", Num(1))}

LimitNext == Step(LimitQuestions, MaxLimitRequests, MaxElapsed)

SpecLimits == Init /\ [][LimitNext]_vars

(***************************************************************************)
(* The same page with a clock that runs on: the interval callback fires    *)
(* as long as an interval is scheduled, and every request gets its         *)
(* response or fails.  The player is free to act or not.  No run counts    *)
(* more seconds than LiveSeconds: a first fetch starts at most 20 seconds  *)
(* and every later question at most 2.                                     *)
(***************************************************************************)
LiveSeconds == DefaultDuration + 2 * MaxLiveRequests + 1

LiveNext == Step(Questions, MaxLiveRequests, LiveSeconds)

SomeGetResponse ==
  \E i \in 1..Len(network), failed \in BOOLEAN, q \in Questions \cup {NullData, FalsyData} :
    GetResponse(i, failed, q)

SomePostResponse ==
  \E i \in 1..Len(network), failed \in BOOLEAN, v \in Verdicts :
    PostResponse(i, failed, v)

SpecLive ==
  /\ Init
  /\ [][LiveNext]_vars
  /\ WF_vars(Tick(LiveSeconds))
  /\ WF_vars(Expire)
  /\ WF_vars(SomeGetResponse)
  /\ WF_vars(SomePostResponse)

(***************************************************************************)
(* The countdown timer alone: a page that holds only the countdown-timer   *)
(* element and dispatches the events it listens for.                       *)
(***************************************************************************)
TimerDurations ==
  {Undefined, NaN, Str(<<"5">>)} \cup {Num(d) : d \in -1..MaxDuration}

TimerSetQuestion(duration) ==
  /\ Commit(Did(startTimerListener(World, duration), "start"))
  /\ UNCHANGED requests

TimerTick ==
  /\ countdownTimer.intervals # {}
  /\ countdownTimer.timeLeft > 0
  /\ countdownTimer.accumulatedTime + countdownTimer.totalTimeSpent < MaxTimerElapsed
  /\ Commit(Did([World EXCEPT !.tm = tickDown(@)], "tick"))
  /\ UNCHANGED requests

TimerExpire ==
  /\ countdownTimer.intervals # {}
  /\ ~(countdownTimer.timeLeft > 0)
  /\ Commit(Did(timeIsUp(World), "expire"))
  /\ UNCHANGED requests

TimerStopTimer ==
  /\ Commit(Did(stopTimerListener(World), "stop"))
  /\ UNCHANGED requests

TimerTryAgain ==
  /\ Commit(Did(tryAgainListener(World), "reset"))
  /\ UNCHANGED requests

TimerNext ==
  \/ \E duration \in TimerDurations : TimerSetQuestion(duration)
  \/ TimerTick
  \/ TimerExpire
  \/ TimerStopTimer
  \/ TimerTryAgain

SpecTimer == Init /\ [][TimerNext]_vars

(***************************************************************************)
(* The high-score board alone: a page that holds only the high-score       *)
(* element, over a storage an earlier visit may have filled, and           *)
(* dispatches 'high-score'.                                                *)
(***************************************************************************)
BoardEntries ==
  {[nickname |-> <<"A">>, score |-> v] :
     v \in {Num(k) : k \in 1..MaxScore} \cup {Undefined}}
    \cup {[nickname |-> <<"B">>, score |-> Num(1)]}

InitBoard ==
  /\ countdownTimer = TimerInit
  /\ quizApplication = [nickname |-> <<>>, currentQuestion |-> NoQuestion,
                        highScoreShown |-> FALSE, totalTime |-> Undefined]
  /\ hidden = [nicknameForm |-> FALSE, quizQuestion |-> FALSE,
               countdownTimer |-> TRUE, highScore |-> TRUE]
  /\ \E stored \in {NoItem, FalsyItem, ObjectItem, InvalidItem}
                      \cup {ArrayItem(<<e>>) : e \in BoardEntries} :
       localStorage = [highScores |-> stored,
                       nickname |-> [present |-> FALSE, value |-> <<>>]]
  /\ highScore = BoardInit
  /\ quizQuestion = DisplayInit
  /\ nicknameForm = <<>>
  /\ network = <<>>
  /\ requests = 0
  /\ obs = ObsInit

\* connectedCallback: the first render
BoardConnected ==
  /\ ~highScore.connected
  /\ Commit(Did(boardConnectedCallback(World), "connected"))
  /\ UNCHANGED requests

\* 'high-score' arrives with a nickname and a score
BoardHighScore(detail) ==
  /\ highScore.connected
  /\ Len(highScore.scores) < MaxHistory
  /\ Commit(Did(highScoreListener(World, detail), "high-score"))
  /\ UNCHANGED requests

BoardNext ==
  \/ BoardConnected
  \/ \E detail \in BoardEntries : BoardHighScore(detail)

SpecBoard == InitBoard /\ [][BoardNext]_vars

(***************************************************************************)
(* The page over a storage in which 'highScores' is absent, is not the     *)
(* text of an array, or is the history earlier visits left.  When the constructor of quiz-application throws, the *)
(* element is never upgraded and none of its children exists: all of them *)
(* are hidden.                                                             *)
(***************************************************************************)
\* the history after n earlier sessions, in the order they ended
EarlierHistory(n) ==
  [i \in 1..n |->
     IF i = 1 THEN [nickname |-> <<"A">>, score |-> Num(1)]
     ELSE [nickname |-> <<"B">>, score |-> Num(i - 2)]]

StoredItems ==
  {NoItem, FalsyItem, ObjectItem, InvalidItem}
    \cup {ArrayItem(EarlierHistory(n)) : n \in {TopScores, MaxEarlier}}

InitStored ==
  \E stored \in StoredItems :
    LET ls == [highScores |-> stored,
               nickname |-> [present |-> FALSE, value |-> <<>>]]
    IN /\ countdownTimer = TimerInit
       /\ quizApplication = [nickname |-> <<>>, currentQuestion |-> NoQuestion,
                             highScoreShown |-> FALSE, totalTime |-> Undefined]
       /\ hidden = IF ParseThrows(stored)
                   THEN [nicknameForm |-> TRUE, quizQuestion |-> TRUE,
                         countdownTimer |-> TRUE, highScore |-> TRUE]
                   ELSE [nicknameForm |-> FALSE, quizQuestion |-> FALSE,
                         countdownTimer |-> TRUE, highScore |-> TRUE]
       /\ localStorage = ls
       /\ highScore = IF RenderThrows(ls) THEN BoardInit ELSE render(ls)
       /\ quizQuestion = DisplayInit
       /\ nicknameForm = <<>>
       /\ network = <<>>
       /\ requests = 0
       /\ obs = [ObsInit EXCEPT !.threw = RenderThrows(ls)]

StoredNext == Step(Questions, MaxStoredRequests, MaxElapsed)

SpecStored == InitStored /\ [][StoredNext]_vars

(***************************************************************************)
(* The claims.                                                             *)
(***************************************************************************)

\* C1: between two restarts the completion handling (the reveal of the
\* high-score panel and the storing of an entry) runs at most once, however
\* the timer's expiry and the responses to answers interleave.
C1_CompletionOnce ==
  /\ obs.completions <= 1
  /\ obs.persists <= 1

\* the timer expired first, and the response to an answer came afterwards
C1_Witness ==
  /\ obs.completions = 1
  /\ obs.completion.path = "expiry"
  /\ obs.persists = 1
  /\ obs.dropped
  /\ obs.last = "post:done"

\* C2: a timer started with an integer duration d > 0 and left to tick
\* stops itself and dispatches 'total-time-spent' exactly once, and the
\* event carries the seconds accumulated before the start plus d.
C2_RunsToCompletion ==
  LET d == obs.startArg
      running == countdownTimer.intervalId # NullId
  IN (obs.started /\ d.t = "number" /\ d.n > 0) =>
       /\ obs.emits <= 1
       /\ running =>
            /\ obs.emits = 0
            /\ countdownTimer.timeLeft >= 0
            /\ countdownTimer.timeLeft + countdownTimer.totalTimeSpent = d.n
       /\ (~running /\ ~obs.interrupted) => obs.emits = 1
       /\ obs.emits = 1 =>
            /\ ~running
            /\ countdownTimer.intervals = {}
            /\ obs.lastTotal = obs.startElapsed + d.n

\* a run of 3 seconds, begun with seconds already accumulated, has ended
C2_Witness ==
  /\ obs.started
  /\ obs.startArg = Num(MaxDuration)
  /\ obs.startElapsed > 0
  /\ obs.emits = 1
  /\ obs.last = "expire"

\* the history stored under 'highScores'
StoredHistory == localStorage.highScores.items

\* this step ran the completion handling for a pair that was already stored
RecordsStoredPair ==
  /\ obs'.completions = obs.completions + 1
  /\ \E i \in 1..Len(StoredHistory) :
       /\ StoredHistory[i].nickname = quizApplication.nickname
       /\ StoredHistory[i].score = StringifyValue(obs'.completion.score)

\* C3: the stored history never holds the same (nickname, score) pair
\* twice, and recording a pair that is already stored leaves it unchanged.
C3_NoDuplicatePairs ==
  /\ [](\A i, j \in 1..Len(StoredHistory) :
          (/\ StoredHistory[i].nickname = StoredHistory[j].nickname
           /\ StoredHistory[i].score = StoredHistory[j].score) => i = j)
  /\ [][RecordsStoredPair => localStorage' = localStorage]_vars

\* a second session ended with the nickname and the score of the first
C3_Witness ==
  /\ obs.sawExisting
  /\ obs.completions = 1
  /\ Len(StoredHistory) = 1
  /\ StoredHistory[1].nickname = quizApplication.nickname
  /\ StoredHistory[1].score = obs.completion.score
  /\ ~hidden.highScore

\* the entries of a list, as a set
Range(seq) == {seq[i] : i \in 1..Len(seq)}

\* C4: the list the board shows has at most 5 entries, ascends by score,
\* holds no entry whose score is not a number, and is made of the
\* lowest-scoring numeric entries of the stored history.
C4_TopFive ==
  LET history == LoadHighScores(localStorage.highScores)
      shown == highScore.topFive
      numeric == {e \in Range(history) : e.score.t = "number"}
  IN highScore.connected =>
       /\ Len(shown) <= 5
       /\ \A i, j \in 1..Len(shown) : i < j => shown[i].score.n <= shown[j].score.n
       /\ \A i \in 1..Len(shown) : shown[i].score.t = "number"
       /\ Range(shown) \subseteq numeric
       /\ Cardinality(Range(shown)) = Len(shown)
       /\ Len(shown) = (IF Cardinality(numeric) < 5 THEN Cardinality(numeric) ELSE 5)
       /\ \A e \in numeric \ Range(shown), r \in Range(shown) : r.score.n <= e.score.n

\* a history of seven entries: one without a numeric score, five shown,
\* one numeric entry cut off
C4_Witness ==
  LET history == LoadHighScores(localStorage.highScores)
  IN /\ highScore.connected
     /\ Len(history) = 7
     /\ \E i \in 1..7 : history[i].score.t = "undefined"
     /\ Len(highScore.topFive) = 5
     /\ \E i \in 1..7 :
          /\ history[i].score.t = "number"
          /\ history[i] \notin Range(highScore.topFive)

\* this step dispatched 'set-question'
SetQuestionStep == obs'.last = "set-question"

\* C5: setQuestion renders radio buttons exactly when alternatives is an
\* object of 2 to 10 keys, a text input for every other question, and
\* changes nothing when the question is absent.
C5_RenderingMode ==
  [][SetQuestionStep =>
       LET question == obs'.question
           alternatives == question.alternatives
       IN IF question.kind # "object" THEN quizQuestion' = quizQuestion
          ELSE IF alternatives.t = "object" /\ alternatives.keys \in 2..10
               THEN /\ quizQuestion'.mode = "choice"
                    /\ quizQuestion'.radios = alternatives.keys
                    /\ quizQuestion'.currentQuestion = question
               ELSE /\ quizQuestion'.mode = "text"
                    /\ quizQuestion'.radios = 0
                    /\ quizQuestion'.currentQuestion = question]_vars

\* 'set-question' came without a question while an earlier question with
\* ten alternatives was on display
C5_Witness ==
  /\ obs.last = "set-question"
  /\ obs.question.kind = "falsy"
  /\ quizQuestion.mode = "choice"
  /\ quizQuestion.radios = 10

\* C6: the answer in 'answer-selected' matches the controls the question
\* was rendered with: the trimmed text of the input for a text input, the
\* key of the checked radio button for choices.
C6_AnswerMatchesMode ==
  /\ obs.answerMode = "text" => obs.answer = AnswerText(Trim(obs.typed))
  /\ obs.answerMode = "choice" => (obs.picked # 0 /\ obs.answer = AnswerKey(obs.picked))

\* a string of digits only
AllDigits(cs) == cs # <<>> /\ \A i \in 1..Len(cs) : cs[i] \in Digits

\* the limit when it is a positive integer (a number, or a string of
\* digits), 20 otherwise
ExpectedDuration(limit) ==
  CASE limit.t = "number" /\ limit.n > 0 -> limit.n
    [] limit.t = "string" /\ AllDigits(limit.s) /\ DigitPrefix(limit.s, 0, FALSE).n > 0
         -> DigitPrefix(limit.s, 0, FALSE).n
    [] OTHER -> 20

\* C7: after the first fetch and after a follow-up fetch the timer counts
\* down from the question's limit when that is a positive integer, and
\* from 20 in every other case.
C7_DurationFromLimit ==
  (obs.started /\ obs.question.kind = "object") =>
     obs.countFrom = ExpectedDuration(obs.question.limit)

\* the step took the request at position i off the network
Resolved(i) == i \in 1..Len(network) /\ network' = Without(network, i)

\* C8: a selected answer is POSTed to the current question's nextURL; a
\* response with a nextURL leads to a GET of that URL and, when the
\* question arrives, to a new 'set-question', without completion; a
\* response without a usable nextURL leads to completion: the timer is
\* stopped and the high-score panel revealed with the timer's accumulated
\* time.
C8_AnswerProtocol ==
  [][/\ (obs'.last = "answer" /\ quizApplication.currentQuestion.kind = "object") =>
          network' = Append(network,
                       [method |-> "POST",
                        url |-> quizApplication.currentQuestion.nextURL,
                        cont |-> "submitAnswer",
                        answer |-> obs'.answer,
                        answered |-> network'[Len(network')].answered])
     /\ obs'.last = "post:next" =>
          /\ obs'.verdict # NoURL
          /\ \E i \in 1..Len(network) :
               /\ network[i].method = "POST"
               /\ network' = Append(Without(network, i),
                               [method |-> "GET", url |-> obs'.verdict,
                                cont |-> "fetchNextQuestion",
                                answer |-> AnswerNull, answered |-> 0])
          /\ obs'.completions = obs.completions
          /\ hidden' = hidden
          /\ localStorage' = localStorage
          /\ countdownTimer' = countdownTimer
     /\ (/\ obs'.last = "set-question"
         /\ \E i \in 1..Len(network) :
              network[i].cont = "fetchNextQuestion" /\ Resolved(i)) =>
          /\ obs'.question = quizApplication'.currentQuestion
          /\ quizQuestion'.currentQuestion = obs'.question
          /\ countdownTimer'.intervalId # NullId
          /\ obs'.completions = obs.completions
          /\ hidden' = hidden
     /\ obs'.last = "post:done" =>
          /\ countdownTimer'.intervalId = NullId
          /\ ~hidden'.highScore
          /\ quizApplication'.highScoreShown
          /\ obs'.completions # obs.completions =>
               /\ obs'.completion.score =
                    Num(countdownTimer.accumulatedTime + countdownTimer.totalTimeSpent)
               /\ obs'.completion.score = Num(countdownTimer'.accumulatedTime)
    ]_vars

\* the response to an answer came without nextURL after seconds had
\* ticked, and ended the session
C8_Witness ==
  /\ obs.last = "post:done"
  /\ obs.completions = 1
  /\ obs.completion.path = "noNext"
  /\ obs.completion.total > 0
  /\ obs.postURL = "/q/2"
  /\ ~hidden.highScore

\* C9: when the response to an answer has no nextURL, the score stored is
\* the time the questions took up to the moment the answer was submitted:
\* the seconds of the earlier questions plus, for the last one, its
\* duration minus the seconds left at that moment.
C9_ScoreAtAnswerTime ==
  (obs.completions = 1 /\ obs.completion.path = "noNext") =>
     obs.completion.score = Num(obs.completion.answered)

\* C10: the score handed to the completion handling, and stored, is the
\* timer's accumulated time, a number, whether the timer expired, a
\* response came without nextURL or a follow-up fetch failed.
C10_ScoreIsAccumulatedTime ==
  /\ obs.completions = 1 => obs.completion.score = Num(obs.completion.total)
  /\ \A i \in 1..Len(StoredHistory) :
       StoredHistory[i].score.t = "number" /\ StoredHistory[i].score.n >= 0

\* the duration is absent, a string or NaN
NonNumeric(duration) == duration.t \in {"undefined", "string", "NaN"}

\* C14: a timer started with a duration that is not a number (absent, a
\* string, NaN) is in the state a start with 20 leaves, and goes on as a
\* timer started with 20: it counts 20 seconds down, stops itself and
\* dispatches 'total-time-spent' once with the seconds accumulated before
\* the start plus 20.
C14_DefaultDuration ==
  /\ [][(obs'.last = "start" /\ NonNumeric(obs'.startArg)) =>
          /\ countdownTimer' = startTimer(countdownTimer, Num(20))
          /\ countdownTimer'.timeLeft = 20
          /\ countdownTimer'.intervalId # NullId
          /\ countdownTimer'.totalTimeSpent = 0]_vars
  /\ []((obs.started /\ NonNumeric(obs.startArg)) =>
          LET running == countdownTimer.intervalId # NullId
          IN /\ obs.emits <= 1
             /\ running =>
                  /\ obs.emits = 0
                  /\ countdownTimer.timeLeft >= 0
                  /\ countdownTimer.timeLeft + countdownTimer.totalTimeSpent = 20
             /\ (~running /\ ~obs.interrupted) => obs.emits = 1
             /\ obs.emits = 1 => obs.lastTotal = obs.startElapsed + 20)

\* a timer started with a string, after a second had been accumulated, has
\* counted its 20 seconds and stopped itself
C14_Witness ==
  /\ obs.started
  /\ obs.startArg.t = "string"
  /\ obs.startElapsed > 0
  /\ obs.emits = 1
  /\ obs.lastTotal = obs.startElapsed + 20
  /\ obs.last = "expire"

\* C15: stopTimer on a stopped timer changes nothing of the timer, and a
\* second stopTimer after a first leaves what the first left: the seconds
\* of a question are added to the accumulated time once.
C15_StopIdempotent ==
  /\ [](stopTimer(stopTimer(countdownTimer)) = stopTimer(countdownTimer))
  /\ [][obs'.last = "stop" =>
          /\ countdownTimer.intervalId = NullId => countdownTimer' = countdownTimer
          /\ countdownTimer'.intervalId = NullId
          /\ countdownTimer'.accumulatedTime =
               countdownTimer.accumulatedTime + countdownTimer.totalTimeSpent
          /\ stopTimer(countdownTimer') = countdownTimer']_vars

\* 'stop-timer' came after the timer had stopped itself at the end of a
\* run with seconds on it
C15_Witness ==
  /\ obs.last = "stop"
  /\ obs.started
  /\ obs.emits = 1
  /\ countdownTimer.intervalId = NullId
  /\ countdownTimer.accumulatedTime > 0

\* C16: after resetAll, from any state of the timer, no interval callback
\* is scheduled, the time left is 0 and the accumulated time is 0.
C16_ResetToIdle ==
  obs.last = "reset" =>
    /\ countdownTimer.intervalId = NullId
    /\ countdownTimer.intervals = {}
    /\ countdownTimer.timeLeft = 0
    /\ countdownTimer.totalTimeSpent = 0
    /\ countdownTimer.accumulatedTime = 0

\* C11: right after a restart the timer is not running and has accumulated
\* nothing, no nickname is stored, the orchestrator's nickname and current
\* question are cleared, the nickname input is empty, the nickname form is
\* visible, the question, the timer and the high-score panel are hidden,
\* and the completion guard is reset.
C11_RestartState ==
  obs.last = "restart" =>
    /\ countdownTimer.intervalId = NullId
    /\ countdownTimer.intervals = {}
    /\ countdownTimer.accumulatedTime = 0
    /\ ~localStorage.nickname.present
    /\ quizApplication.nickname = <<>>
    /\ quizApplication.currentQuestion = NoQuestion
    /\ nicknameForm = <<>>
    /\ ~hidden.nicknameForm
    /\ hidden.quizQuestion
    /\ hidden.countdownTimer
    /\ hidden.highScore
    /\ ~quizApplication.highScoreShown

\* C12: a restart leaves the value stored under 'highScores' as it was.
C12_RestartKeepsHistory ==
  [][obs'.last = "restart" => localStorage'.highScores = localStorage.highScores]_vars

\* the quiz was restarted with two entries in the stored history
C12_Witness ==
  /\ obs.last = "restart"
  /\ localStorage.highScores.kind = "array"
  /\ Len(StoredHistory) = 2

\* C17: at most one request, GET or POST, awaits its response at any time.
C17_OneRequestInFlight == Len(network) <= 1

\* C19: when the POST of an answer fails, or its response cannot be
\* parsed, completion is handled: the timer is stopped and the high-score
\* panel is revealed.
C19_PostErrorCompletes ==
  [][obs'.last = "post:failed" =>
       /\ countdownTimer'.intervalId = NullId
       /\ ~hidden'.highScore
       /\ quizApplication'.highScoreShown]_vars

\* C13: a submission of the nickname form whose trimmed value is empty
\* dispatches nothing and changes nothing but the text in the input; every
\* other submission dispatches 'nickname' once, with the trimmed text,
\* which becomes the nickname of the session.
C13_NicknameSubmission ==
  [][obs'.last = "nickname-submit" =>
       IF Trim(nicknameForm') = <<>>
       THEN /\ obs'.nicknames = obs.nicknames
            /\ quizApplication' = quizApplication
            /\ localStorage' = localStorage
            /\ hidden' = hidden
            /\ network' = network
            /\ countdownTimer' = countdownTimer
            /\ quizQuestion' = quizQuestion
            /\ highScore' = highScore
       ELSE /\ obs'.nicknames = obs.nicknames + 1
            /\ obs'.nicknameDetail = Trim(nicknameForm')
            /\ quizApplication'.nickname = Trim(nicknameForm')
            /\ localStorage'.nickname = [present |-> TRUE, value |-> Trim(nicknameForm')]
    ]_vars

\* " B" was submitted and 'nickname' carried "B"
C13_Witness ==
  /\ obs.last = "nickname-submit"
  /\ nicknameForm = <<" ", "B">>
  /\ obs.nicknames = 1
  /\ obs.nicknameDetail = <<"B">>
  /\ quizApplication.nickname = <<"B">>
  /\ hidden.nicknameForm

\* C18: a GET of a question that fails, the first or a later one, leaves
\* the visibility of the regions, the timer, the completion guard and the
\* stored history as they were.
C18_FetchFailureOnlyLogged ==
  [][obs'.last = "get:failed" =>
       /\ hidden' = hidden
       /\ countdownTimer' = countdownTimer
       /\ quizApplication'.highScoreShown = quizApplication.highScoreShown
       /\ localStorage'.highScores = localStorage.highScores]_vars

\* C20: when 'highScores' is absent from the storage, or holds a text that
\* is not JSON, or the JSON of a value that is not an array, no handler
\* ends in an error and the board holds an empty history.
C20_CorruptHistoryIsEmpty ==
  /\ ~obs.threw
  /\ localStorage.highScores.kind # "array" =>
       /\ highScore.connected
       /\ highScore.scores = <<>>
       /\ highScore.topFive = <<>>
  /\ (obs.completions = 1 /\ Trim(quizApplication.nickname) # <<>>) =>
       /\ localStorage.highScores.kind = "array"
       /\ ~hidden.highScore

\* C21: the regions on display are those of one phase of the session: the
\* nickname form alone, the question with the timer, or the high-score
\* panel alone.
C21_OnePhaseVisible ==
  \/ /\ ~hidden.nicknameForm
     /\ hidden.quizQuestion /\ hidden.countdownTimer /\ hidden.highScore
  \/ /\ ~hidden.quizQuestion /\ ~hidden.countdownTimer
     /\ hidden.nicknameForm /\ hidden.highScore
  \/ /\ ~hidden.highScore
     /\ hidden.nicknameForm /\ hidden.quizQuestion /\ hidden.countdownTimer

\* C26: while the high-score panel is on display the timer is not running.
C26_StoppedWhenCompleted ==
  ~hidden.highScore =>
    /\ countdownTimer.intervalId = NullId
    /\ countdownTimer.intervals = {}

\* C28: at most one interval callback is scheduled; while the timer runs,
\* the time left plus the seconds counted for the question is the duration
\* it was started with; while it does not run, no seconds are counted for
\* a question; and only a reset lowers the accumulated time.
C28_TimerBookkeeping ==
  /\ [](/\ Cardinality(countdownTimer.intervals) <= 1
        /\ countdownTimer.intervals =
             (IF countdownTimer.intervalId = NullId THEN {}
              ELSE {countdownTimer.intervalId})
        /\ countdownTimer.intervalId # NullId =>
             /\ obs.started
             /\ countdownTimer.timeLeft + countdownTimer.totalTimeSpent =
                  (IF obs.startArg.t = "number" THEN obs.startArg.n ELSE 20)
        /\ countdownTimer.intervalId = NullId =>
             countdownTimer.totalTimeSpent = 0
        /\ countdownTimer.accumulatedTime >= 0)
  /\ [][obs'.last # "reset" =>
          countdownTimer'.accumulatedTime >= countdownTimer.accumulatedTime]_vars

\* a timer with seconds accumulated was started again and has counted a
\* second of the new question
C28_Witness ==
  /\ countdownTimer.intervalId # NullId
  /\ obs.startArg = Num(MaxDuration)
  /\ obs.startElapsed > 0
  /\ countdownTimer.accumulatedTime = obs.startElapsed
  /\ countdownTimer.totalTimeSpent = 1
  /\ countdownTimer.timeLeft = MaxDuration - 1

\* C29: a question makes the timer count down from the same duration
\* whether the first fetch or a follow-up fetch brought it: at every
\* 'set-question' the time left is what both fetches compute from the
\* question's limit.
C29_SameDurationBothFetches ==
  [][obs'.last = "set-question" =>
       /\ countdownTimer'.timeLeft = EffectiveDuration(firstDuration(obs'.question))
       /\ countdownTimer'.timeLeft = EffectiveDuration(nextDuration(obs'.question))]_vars

\* C23: the board's Try Again dispatches 'try-again' once and leaves the
\* board's list of scores and the stored history as they were.
C23_TryAgainOnlySignals ==
  [][obs'.last = "restart" =>
       /\ obs'.tryAgains = obs.tryAgains + 1
       /\ highScore' = highScore
       /\ localStorage'.highScores = localStorage.highScores]_vars

\* Try Again was pressed on a board that showed a stored score
C23_Witness ==
  /\ obs.last = "restart"
  /\ obs.tryAgains = 1
  /\ Len(highScore.scores) = 1
  /\ Len(highScore.topFive) = 1
  /\ LoadHighScores(localStorage.highScores) = highScore.scores

\* C24: pressing Submit Answer on a form of choices in which no radio
\* button is checked dispatches no 'answer-selected' and sends nothing to
\* the server.
C24_NoChoiceNoAnswer ==
  [][(/\ obs'.last \in {"answer", "answer:none"}
      /\ quizQuestion.mode = "choice"
      /\ quizQuestion'.checked = 0) =>
       /\ obs'.answers = obs.answers
       /\ network' = network
       /\ obs'.last = "answer:none"
       /\ quizApplication' = quizApplication
       /\ countdownTimer' = countdownTimer]_vars

\* Submit Answer was pressed on a form of two choices, none of them
\* checked, while the question was on display
C24_Witness ==
  /\ obs.last = "answer:none"
  /\ quizQuestion.mode = "choice"
  /\ quizQuestion.radios = 2
  /\ quizQuestion.checked = 0
  /\ ~hidden.quizQuestion
  /\ obs.answers = 0
  /\ network = <<>>

\* C27: from a restart to the next submission of a nickname, whatever
\* response of the earlier session arrives, the timer stays stopped, the
\* nickname form stays on display, the high-score panel stays hidden and
\* nothing is stored.
C27_StaleResponseIgnored ==
  (obs.tryAgains > 0 /\ obs.nicknames = 0) =>
     /\ countdownTimer.intervalId = NullId
     /\ ~hidden.nicknameForm
     /\ hidden.highScore
     /\ obs.persists = 0

C25_EventuallyCompletes ==
  /\ [](countdownTimer.accumulatedTime + countdownTimer.totalTimeSpent < LiveSeconds)
  /\ (obs.started ~> ~hidden.highScore)

\* a question was set, the player never answered, and the expiry of the
\* timer revealed the panel
C25_Witness ==
  /\ obs.started
  /\ obs.answers = 0
  /\ obs.completion.path = "expiry"
  /\ obs.completions = 1
  /\ ~hidden.highScore
  /\ countdownTimer.intervalId = NullId

====
